---- MODULE Spec2Model ----
(***************************************************************************)
(* macspace: a CLI that keeps named workspaces (ordered lists of app       *)
(* names) in ~/.macspace/workspaces.json and launches their apps.          *)
(*                                                                         *)
(* Strings whose characters matter (the --apps value and the app names     *)
(* parsed from it) are sequences of one-character strings.  Workspace      *)
(* names are only ever compared for equality and are plain strings.        *)
(* The store file is a record: whether it exists, the indent it was        *)
(* written with (ensure_config writes compact JSON, save_data indent=2)    *)
(* and the JSON value of its "workspaces" key.  The file is only ever      *)
(* written by this program, so it always parses.                           *)
(***************************************************************************)
EXTENDS Integers, Sequences, FiniteSets, TLC

VARIABLES
    file,      \* CONFIG_FILE on disk
    cmd,       \* the last invocation that ran: its command and NAME argument
    out,       \* what the last invocation printed (message kinds)
    writes,    \* the writes the last invocation made to CONFIG_FILE, in order
    launched,  \* the app names the last invocation handed to open_app, in order
    pc,        \* racing invocations: position of each process
    job,       \* racing invocations: argv of each process
    data,      \* racing invocations: the document each process holds in memory
    rout,      \* racing invocations: what each process printed
    savers,    \* racing invocations: the processes that saved, in save order
    seen,      \* racing invocations: how many saves preceded each process's load
    origin     \* racing invocations: CONFIG_FILE before either process started

vars ==
    <<file, cmd, out, writes, launched, pc, job, data, rout, savers, seen, origin>>

raceVars == <<pc, job, data, rout, savers, seen, origin>>

-----------------------------------------------------------------------------
(* Bounds and input domains *)

MaxEntries == 2       \* comma-separated entries in one --apps value
MaxRaceEntries == 1   \* the same, for the two racing invocations

Names == {"Dev", "Web"}
AppNames == {<<"A">>, <<"B">>}
Procs == {1, 2}

Entry(lead, core, trail) == [lead |-> lead, core |-> core, trail |-> trail]

\* What a user may type between two commas: a name, a name padded with
\* blanks, or only a blank.
RawEntries == { Entry(0, <<"A">>, 0), Entry(1, <<"B">>, 1), Entry(1, <<>>, 0) }

SeqsUpTo(S, n) == UNION { [1..k -> S] : k \in 0..n }

Blanks(n) == [i \in 1..n |-> " "]

EntryText(e) == Blanks(e.lead) \o e.core \o Blanks(e.trail)

RECURSIVE JoinCsv(_)
JoinCsv(es) ==
    IF es = <<>> THEN <<>>
    ELSE IF Len(es) = 1 THEN EntryText(es[1])
    ELSE EntryText(es[1]) \o <<",">> \o JoinCsv(Tail(es))

-----------------------------------------------------------------------------
(* Pure helpers of the program *)

IsSpace(c) == c = " "

RECURSIVE LStrip(_)
LStrip(s) == IF s # <<>> /\ IsSpace(s[1]) THEN LStrip(Tail(s)) ELSE s

RECURSIVE RStrip(_)
RStrip(s) ==
    IF s # <<>> /\ IsSpace(s[Len(s)]) THEN RStrip(SubSeq(s, 1, Len(s) - 1)) ELSE s

\* str.strip()
Strip(s) == RStrip(LStrip(s))

\* str.split(","): n commas give n+1 fields, the empty string gives [""]
RECURSIVE SplitFrom(_, _)
SplitFrom(s, cur) ==
    IF s = <<>> THEN <<cur>>
    ELSE IF s[1] = "," THEN <<cur>> \o SplitFrom(Tail(s), <<>>)
    ELSE SplitFrom(Tail(s), Append(cur, s[1]))

Split(s) == SplitFrom(s, <<>>)

NonEmpty(s) == s # <<>>

StripAll(fields) == [i \in 1..Len(fields) |-> Strip(fields[i])]

\* a parse that forgets to trim the fields
ParseCsvNoStrip(csv) == SelectSeq(Split(csv), NonEmpty)

\* [a.strip() for a in apps.split(",") if a.strip()]
ParseCsv(csv) == SelectSeq(StripAll(Split(csv)), NonEmpty)

Contains(s, x) == \E i \in 1..Len(s) : s[i] = x

\* list.remove(x): drops the first element equal to x
RECURSIVE RemoveFirst(_, _)
RemoveFirst(s, x) ==
    IF s = <<>> THEN <<>>
    ELSE IF s[1] = x THEN Tail(s)
    ELSE <<s[1]>> \o RemoveFirst(Tail(s), x)

Workspace(n, apps) == [name |-> n, apps |-> apps]

\* a lookup that only looks at the first workspace
FindWorkspaceFirstOnly(ws, n) == IF ws # <<>> /\ ws[1].name = n THEN 1 ELSE 0

\* find_workspace: index of the first workspace named n, 0 for None
FindWorkspace(ws, n) ==
    IF \E i \in 1..Len(ws) : ws[i].name = n
    THEN CHOOSE i \in 1..Len(ws) :
            /\ ws[i].name = n
            /\ \A j \in 1..(i - 1) : ws[j].name # n
    ELSE 0

-----------------------------------------------------------------------------
(* The store *)

NoFile == [exists |-> FALSE, indent |-> 0, workspaces |-> <<>>]

StoreFile(indent, ws) == [exists |-> TRUE, indent |-> indent, workspaces |-> ws]

\* an ensure_config without its exists() test
EnsureConfigAlways(f) == [exists |-> TRUE, indent |-> 0, workspaces |-> <<>>]

\* ensure_config: a missing file is created holding {"workspaces": []}
EnsureConfig(f) == IF f.exists THEN f ELSE StoreFile(0, <<>>)

EnsureWrites(f) == IF f.exists THEN <<>> ELSE <<"init">>

\* load_data: ensure_config, then the parsed "workspaces" value
LoadData(f) == EnsureConfig(f).workspaces

\* save_data: ensure_config, then the whole document rewritten with indent=2
SaveData(f, ws) == StoreFile(2, ws)

SaveWrites(f) == EnsureWrites(f) \o <<"save">>

-----------------------------------------------------------------------------
(* The commands, as functions of the loaded document.  Each gives the      *)
(* document the handler ends with, whether it called save_data, and what   *)
(* it printed.                                                             *)

Result(ws, save, msgs) == [workspaces |-> ws, save |-> save, out |-> msgs]

Msg(kind, what) == [kind |-> kind, what |-> what]

NoArg == <<>>

CreateApps(hasApps, csv) == IF hasApps /\ csv # <<>> THEN ParseCsv(csv) ELSE <<>>

\* a create that overwrites the apps of a workspace that exists
CmdCreateUpsert(ws, n, hasApps, csv) ==
    LET i    == FindWorkspace(ws, n)
        apps == CreateApps(hasApps, csv)
        said == <<Msg("created", NoArg), Msg("installed_report", NoArg)>>
                \o (IF apps # <<>> THEN <<Msg("added_to_workspace", apps)>> ELSE <<>>)
    IN IF i # 0
       THEN Result([ws EXCEPT ![i].apps = apps], TRUE, said)
       ELSE Result(Append(ws, Workspace(n, apps)), TRUE, said)

\* The listing of get_installed_apps() that cmd_create prints after saving
\* is display only and is one message here, whatever it lists.
CmdCreate(ws, n, hasApps, csv) ==
    IF FindWorkspace(ws, n) # 0
    THEN Result(ws, FALSE, <<Msg("already_exists", NoArg)>>)
    ELSE LET apps == CreateApps(hasApps, csv) IN
         Result(Append(ws, Workspace(n, apps)), TRUE,
                <<Msg("created", NoArg), Msg("installed_report", NoArg)>>
                \o (IF apps # <<>> THEN <<Msg("added_to_workspace", apps)>> ELSE <<>>))

CmdDelete(ws, n) ==
    LET i == FindWorkspace(ws, n) IN
    IF i = 0
    THEN Result(ws, FALSE, <<Msg("not_found", NoArg)>>)
    ELSE Result(RemoveFirst(ws, ws[i]), TRUE, <<Msg("deleted", NoArg)>>)

\* the loop of cmd_add: [apps, added] after the entries of todo
RECURSIVE AddLoop(_, _, _)
AddLoop(apps, added, todo) ==
    IF todo = <<>> THEN [apps |-> apps, done |-> added]
    ELSE IF ~Contains(apps, todo[1])
         THEN AddLoop(Append(apps, todo[1]), Append(added, todo[1]), Tail(todo))
         ELSE AddLoop(apps, added, Tail(todo))

\* an add that creates the workspace it does not find
CmdAddUpsert(ws, n, csv) ==
    LET i == FindWorkspace(ws, n) IN
    IF i = 0
    THEN LET r == AddLoop(<<>>, <<>>, ParseCsv(csv)) IN
         Result(Append(ws, Workspace(n, r.apps)), TRUE,
                <<IF r.done # <<>> THEN Msg("added", r.done) ELSE Msg("none_added", NoArg)>>)
    ELSE LET r == AddLoop(ws[i].apps, <<>>, ParseCsv(csv)) IN
         Result([ws EXCEPT ![i].apps = r.apps], TRUE,
                <<IF r.done # <<>> THEN Msg("added", r.done) ELSE Msg("none_added", NoArg)>>)

CmdAdd(ws, n, csv) ==
    LET i == FindWorkspace(ws, n) IN
    IF i = 0
    THEN Result(ws, FALSE, <<Msg("not_found", NoArg)>>)
    ELSE LET r == AddLoop(ws[i].apps, <<>>, ParseCsv(csv)) IN
         Result([ws EXCEPT ![i].apps = r.apps], TRUE,
                <<IF r.done # <<>> THEN Msg("added", r.done) ELSE Msg("none_added", NoArg)>>)

\* the loop of cmd_remove
RECURSIVE RemoveLoop(_, _, _)

\* a loop that stops at the first app it removed
RemoveLoopBreak(apps, removed, todo) ==
    IF todo = <<>> THEN [apps |-> apps, done |-> removed]
    ELSE IF Contains(apps, todo[1])
         THEN [apps |-> RemoveFirst(apps, todo[1]), done |-> Append(removed, todo[1])]
         ELSE RemoveLoop(apps, removed, Tail(todo))

RemoveLoop(apps, removed, todo) ==
    IF todo = <<>> THEN [apps |-> apps, done |-> removed]
    ELSE IF Contains(apps, todo[1])
         THEN RemoveLoop(RemoveFirst(apps, todo[1]), Append(removed, todo[1]), Tail(todo))
         ELSE RemoveLoop(apps, removed, Tail(todo))

CmdRemove(ws, n, csv) ==
    LET i == FindWorkspace(ws, n) IN
    IF i = 0
    THEN Result(ws, FALSE, <<Msg("not_found", NoArg)>>)
    ELSE LET r == RemoveLoop(ws[i].apps, <<>>, ParseCsv(csv)) IN
         Result([ws EXCEPT ![i].apps = r.apps], TRUE,
                <<IF r.done # <<>> THEN Msg("removed", r.done) ELSE Msg("none_matched", NoArg)>>)

CmdList(ws) ==
    IF ws = <<>>
    THEN Result(ws, FALSE, <<Msg("no_workspaces", NoArg)>>)
    ELSE Result(ws, FALSE,
                [i \in 1..Len(ws) |-> Msg("entry", <<ws[i].name, Len(ws[i].apps)>>)])

CmdShow(ws, n) ==
    LET i == FindWorkspace(ws, n) IN
    IF i = 0
    THEN Result(ws, FALSE, <<Msg("not_found", NoArg)>>)
    ELSE Result(ws, FALSE,
                <<Msg("workspace", ws[i].name)>>
                \o (IF ws[i].apps = <<>> THEN <<Msg("no_apps", NoArg)>>
                    ELSE [k \in 1..Len(ws[i].apps) |-> Msg("app", ws[i].apps[k])]))

\* open_app: TRUE unless starting the `open` process raised
OpenApp(app, failing) == app \notin failing

\* the loop of cmd_open over the apps still to visit
RECURSIVE OpenLoop(_, _, _)

\* a loop that gives up at the first launch that fails
OpenLoopAbort(todo, installed, failing) ==
    IF todo = <<>> THEN [launched |-> <<>>, out |-> <<>>]
    ELSE LET app  == todo[1]
             ok   == OpenApp(app, failing)
             said == IF app \in installed
                     THEN <<Msg("opening", app)>>
                          \o (IF ok THEN <<>> ELSE <<Msg("failed", app)>>)
                     ELSE <<Msg("attempting", app)>>
                          \o (IF ok THEN <<>> ELSE <<Msg("could_not", app)>>)
         IN IF ok
            THEN LET rest == OpenLoop(Tail(todo), installed, failing) IN
                 [launched |-> <<app>> \o rest.launched, out |-> said \o rest.out]
            ELSE [launched |-> <<app>>, out |-> said]

OpenLoop(todo, installed, failing) ==
    IF todo = <<>> THEN [launched |-> <<>>, out |-> <<>>]
    ELSE LET app  == todo[1]
             ok   == OpenApp(app, failing)
             rest == OpenLoop(Tail(todo), installed, failing)
             said == IF app \in installed
                     THEN <<Msg("opening", app)>>
                          \o (IF ok THEN <<>> ELSE <<Msg("failed", app)>>)
                     ELSE <<Msg("attempting", app)>>
                          \o (IF ok THEN <<>> ELSE <<Msg("could_not", app)>>)
         IN [launched |-> <<app>> \o rest.launched, out |-> said \o rest.out]

\* cmd_open: the Result, and the launches it made
CmdOpen(ws, n, installed, failing) ==
    LET i == FindWorkspace(ws, n) IN
    IF i = 0
    THEN [launched |-> <<>>, out |-> <<Msg("not_found", NoArg)>>]
    ELSE IF ws[i].apps = <<>>
    THEN [launched |-> <<>>, out |-> <<Msg("nothing_to_open", NoArg)>>]
    ELSE LET r == OpenLoop(ws[i].apps, installed, failing) IN
         [launched |-> r.launched, out |-> <<Msg("opening_workspace", ws[i].name)>> \o r.out]

CmdApps(installed) ==
    IF installed = {} THEN <<Msg("no_installed", NoArg)>>
    ELSE <<Msg("installed_listed", NoArg)>>

-----------------------------------------------------------------------------
(* One invocation after another *)

\* the --apps value a user types for the entries es
Csv(es) == JoinCsv(es)

AppLists == SeqsUpTo(RawEntries, MaxEntries)

Ran(op, n) == [op |-> op, name |-> n]

\* CONFIG_FILE after a handler that loaded f and ended with r: load_data
\* has run ensure_config, and save_data ran if the handler reached it.
FileAfter(f, r) ==
    IF r.save THEN SaveData(EnsureConfig(f), r.workspaces) ELSE EnsureConfig(f)

WritesOf(f, r) == IF r.save THEN SaveWrites(f) ELSE EnsureWrites(f)

Invoke(c, r, lch) ==
    /\ cmd' = c
    /\ file' = FileAfter(file, r)
    /\ writes' = WritesOf(file, r)
    /\ out' = r.out
    /\ launched' = lch
    /\ UNCHANGED raceVars

Create ==
    \E n \in Names, hasApps \in BOOLEAN, es \in AppLists :
        /\ hasApps \/ es = <<>>
        /\ Invoke(Ran("create", n), CmdCreate(LoadData(file), n, hasApps, Csv(es)), <<>>)

List == Invoke(Ran("list", ""), CmdList(LoadData(file)), <<>>)

Show == \E n \in Names : Invoke(Ran("show", n), CmdShow(LoadData(file), n), <<>>)

Delete == \E n \in Names : Invoke(Ran("delete", n), CmdDelete(LoadData(file), n), <<>>)

Add ==
    \E n \in Names, es \in AppLists :
        Invoke(Ran("add", n), CmdAdd(LoadData(file), n, Csv(es)), <<>>)

Remove ==
    \E n \in Names, es \in AppLists :
        Invoke(Ran("remove", n), CmdRemove(LoadData(file), n, Csv(es)), <<>>)

Open ==
    \E n \in Names, installed \in SUBSET AppNames, failing \in SUBSET AppNames :
        LET r == CmdOpen(LoadData(file), n, installed, failing) IN
        Invoke(Ran("open", n), Result(LoadData(file), FALSE, r.out), r.launched)

\* `apps` never touches the store
Apps ==
    \E installed \in SUBSET AppNames :
        /\ cmd' = Ran("apps", "")
        /\ out' = CmdApps(installed)
        /\ writes' = <<>>
        /\ launched' = <<>>
        /\ UNCHANGED <<file, raceVars>>

NoJob == [op |-> "none", name |-> "", hasApps |-> FALSE, entries |-> <<>>]

RaceIdle ==
    /\ pc = [p \in Procs |-> "idle"]
    /\ job = [p \in Procs |-> NoJob]
    /\ data = [p \in Procs |-> <<>>]
    /\ rout = [p \in Procs |-> <<>>]
    /\ savers = <<>>
    /\ seen = [p \in Procs |-> 0]
    /\ origin = NoFile

Init ==
    /\ file = NoFile
    /\ cmd = Ran("none", "")
    /\ out = <<>>
    /\ writes = <<>>
    /\ launched = <<>>
    /\ RaceIdle

Next == Create \/ List \/ Show \/ Delete \/ Add \/ Remove \/ Open \/ Apps

Spec == Init /\ [][Next]_vars

-----------------------------------------------------------------------------
(* Two invocations at once: separate processes, each load_data, then the   *)
(* handler's work on its own copy, then save_data; nothing locks the file. *)
(* A save is one step: the claims here are about whole loads and saves.    *)

RaceLists == SeqsUpTo(RawEntries, MaxRaceEntries)

Job(op, n, hasApps, es) == [op |-> op, name |-> n, hasApps |-> hasApps, entries |-> es]

RaceJobs ==
    { Job(op, n, TRUE, es) : op \in {"create", "add", "remove"}, n \in Names, es \in RaceLists }
    \cup { Job("delete", n, FALSE, <<>>) : n \in Names }

\* stores the two processes may find: no file yet, or what `create Dev`
\* with or without `--apps A` left
RaceStores ==
    { NoFile,
      StoreFile(2, <<Workspace("Dev", <<>>)>>),
      StoreFile(2, <<Workspace("Dev", <<<<"A">>>>)>>) }

\* the handler of job j on the document ws
RunJob(ws, j) ==
    CASE j.op = "create" -> CmdCreate(ws, j.name, j.hasApps, Csv(j.entries))
      [] j.op = "add"    -> CmdAdd(ws, j.name, Csv(j.entries))
      [] j.op = "remove" -> CmdRemove(ws, j.name, Csv(j.entries))
      [] j.op = "delete" -> CmdDelete(ws, j.name)

RaceInit ==
    /\ file \in RaceStores
    /\ origin = file
    /\ cmd = Ran("none", "")
    /\ out = <<>>
    /\ writes = <<>>
    /\ launched = <<>>
    /\ pc = [p \in Procs |-> "start"]
    /\ job \in [Procs -> RaceJobs]
    /\ data = [p \in Procs |-> <<>>]
    /\ rout = [p \in Procs |-> <<>>]
    /\ savers = <<>>
    /\ seen = [p \in Procs |-> 0]

\* `data = load_data()`, the first statement of every handler
RaceLoad(p) ==
    /\ pc[p] = "start"
    /\ data' = [data EXCEPT ![p] = LoadData(file)]
    /\ file' = EnsureConfig(file)
    /\ seen' = [seen EXCEPT ![p] = Len(savers)]
    /\ pc' = [pc EXCEPT ![p] = "loaded"]
    /\ UNCHANGED <<cmd, out, writes, launched, job, rout, savers, origin>>

\* a handler that reads the file again when it gets to work
HeldFresh(p) == LoadData(file)

\* the document process p hands to its handler: the one it loaded
Held(p) == data[p]

\* the rest of the handler: the work on the in-memory document, save_data
\* if the handler reaches it, and the report
RaceFinish(p) ==
    /\ pc[p] = "loaded"
    /\ LET r == RunJob(Held(p), job[p]) IN
        /\ data' = [data EXCEPT ![p] = r.workspaces]
        /\ file' = IF r.save THEN SaveData(EnsureConfig(file), r.workspaces) ELSE file
        /\ savers' = IF r.save THEN Append(savers, p) ELSE savers
        /\ rout' = [rout EXCEPT ![p] = r.out]
    /\ pc' = [pc EXCEPT ![p] = "done"]
    /\ UNCHANGED <<cmd, out, writes, launched, job, seen, origin>>

Load == \E p \in Procs : RaceLoad(p)

Finish == \E p \in Procs : RaceFinish(p)

RaceNext == Load \/ Finish

RaceSpec == RaceInit /\ [][RaceNext]_vars

-----------------------------------------------------------------------------
(* What the claims speak of *)

\* the document an invocation starting now would load
Stored == LoadData(file)

\* the apps list of workspace n in ws (n is in ws)
AppsOf(ws, n) == ws[FindWorkspace(ws, n)].apps

Has(ws, n) == \E i \in 1..Len(ws) : ws[i].name = n

NoRepeats(s) == \A i, j \in 1..Len(s) : i # j => s[i] # s[j]

Cores(es) == [i \in 1..Len(es) |-> es[i].core]

\* the entries of a typed list once trimmed, the empty ones dropped
Named(es) == SelectSeq(Cores(es), NonEmpty)

Kinds(msgs) == [i \in 1..Len(msgs) |-> msgs[i].kind]

\* the store after `add n --apps es` run from store f, and likewise
AfterAdd(f, n, es) == FileAfter(f, CmdAdd(LoadData(f), n, Csv(es)))

AfterRemove(f, n, es) == FileAfter(f, CmdRemove(LoadData(f), n, Csv(es)))

AfterDelete(f, n) == FileAfter(f, CmdDelete(LoadData(f), n))

AfterCreate(f, n, hasApps, es) ==
    FileAfter(f, CmdCreate(LoadData(f), n, hasApps, Csv(es)))

\* C1: after any run of create, add, remove and delete from the empty
\* store, no workspace of the stored document has an app listed twice.
C1_NoRepeatedApps ==
    \A i \in 1..Len(Stored) : NoRepeats(Stored[i].apps)

\* C2: after any run of commands from the empty store, no two workspaces of
\* the stored document have the same name.
C2_UniqueNames ==
    \A i, j \in 1..Len(Stored) : i # j => Stored[i].name # Stored[j].name

\* a second create of a stored name was refused while two workspaces exist
C2_Witness ==
    /\ Len(Stored) = 2
    /\ cmd.op = "create"
    /\ Kinds(out) = <<"already_exists">>

\* C3 as claimed: for every existing workspace and every list, add of the
\* list and then remove of the same list leaves the apps as before the add.
C3_AddThenRemoveRestores ==
    \A n \in Names, es \in AppLists :
        Has(Stored, n) =>
            AppsOf(LoadData(AfterRemove(AfterAdd(file, n, es), n, es)), n)
                = AppsOf(Stored, n)

\* C3 amended: add of a list and then remove of the same list leaves the
\* apps as before the add, provided no app named in the list was in the
\* workspace before the add.
C3_AddThenRemoveRestoresNew ==
    \A n \in Names, es \in AppLists :
        (/\ Has(Stored, n)
         /\ \A k \in 1..Len(Named(es)) : ~Contains(AppsOf(Stored, n), Named(es)[k]))
        => AppsOf(LoadData(AfterRemove(AfterAdd(file, n, es), n, es)), n)
               = AppsOf(Stored, n)

\* a remove has just taken apps out of a workspace that still holds an app,
\* and a list of two new names exists for some workspace
C3_Witness ==
    /\ cmd.op = "remove"
    /\ Kinds(out) = <<"removed">>
    /\ Has(Stored, cmd.name)
    /\ AppsOf(Stored, cmd.name) # <<>>
    /\ \E es \in AppLists :
          /\ Len(Named(es)) >= 1
          /\ \A k \in 1..Len(Named(es)) :
                ~Contains(AppsOf(Stored, cmd.name), Named(es)[k])
          /\ AppsOf(LoadData(AfterAdd(file, cmd.name, es)), cmd.name)
                # AppsOf(Stored, cmd.name)

\* C4: create of a name that is already stored changes nothing: the file is
\* not written and holds the same document, whatever --apps is given.
C4_CreateExistingNoChange ==
    [][(cmd'.op = "create" /\ Has(Stored, cmd'.name))
        => (file' = file /\ writes' = <<>>)]_vars

C4_Witness ==
    /\ cmd.op = "create"
    /\ Kinds(out) = <<"already_exists">>
    /\ AppsOf(Stored, cmd.name) # <<>>

\* C5: open hands the workspace's apps to the launcher one by one, in list
\* order, each exactly once, installed or not, failed launches or not.
C5_OpenLaunchesAll ==
    (cmd.op = "open" /\ Has(Stored, cmd.name)) => launched = AppsOf(Stored, cmd.name)

\* the first launch failed, an app was not among the installed ones, and the
\* second app was launched all the same
C5_Witness ==
    /\ cmd.op = "open"
    /\ Len(launched) >= 2
    /\ \E k \in 1..Len(out) :
          out[k].kind \in {"failed", "could_not"} /\ out[k].what = launched[1]
    /\ \E k \in 1..Len(out) : out[k].kind = "attempting"

ReadOnly == {"list", "show", "open"}

\* C6 as claimed: list, show and open never write the store file, whatever
\* state the store is in, the file not existing yet included.
C6_ReadOnlyNeverWrites ==
    cmd.op \in ReadOnly => writes = <<>>

\* C6 amended: list, show and open leave an existing store file untouched;
\* when the file does not exist yet they create it holding the empty
\* collection, and write nothing else.
C6_ReadOnlyOnlyInitialises ==
    [][cmd'.op \in ReadOnly
        => IF file.exists
           THEN file' = file /\ writes' = <<>>
           ELSE file' = StoreFile(0, <<>>) /\ writes' = <<"init">>]_vars

C6_Witness ==
    /\ cmd.op = "show"
    /\ "app" \in { out[k].kind : k \in 1..Len(out) }
    /\ writes = <<>>
    /\ Len(Stored) = 2

\* C7: add, remove or delete of a workspace that is not stored, and remove
\* of apps none of which is in the workspace, report it and leave the stored
\* document as it was.
C7_NotFoundNoChange ==
    \A n \in Names, es \in AppLists :
        /\ ~Has(Stored, n) =>
              /\ LoadData(AfterAdd(file, n, es)) = Stored
              /\ LoadData(AfterRemove(file, n, es)) = Stored
              /\ LoadData(AfterDelete(file, n)) = Stored
              /\ Kinds(CmdAdd(Stored, n, Csv(es)).out) = <<"not_found">>
              /\ Kinds(CmdRemove(Stored, n, Csv(es)).out) = <<"not_found">>
              /\ Kinds(CmdDelete(Stored, n).out) = <<"not_found">>
        /\ (/\ Has(Stored, n)
            /\ \A k \in 1..Len(Named(es)) : ~Contains(AppsOf(Stored, n), Named(es)[k]))
           => /\ LoadData(AfterRemove(file, n, es)) = Stored
              /\ Kinds(CmdRemove(Stored, n, Csv(es)).out) = <<"none_matched">>

\* a remove matched nothing in a workspace that holds apps, rewrote the
\* file, and another name is not stored
C7_Witness ==
    /\ cmd.op = "remove"
    /\ Kinds(out) = <<"none_matched">>
    /\ writes = <<"save">>
    /\ AppsOf(Stored, cmd.name) # <<>>
    /\ \E n \in Names : ~Has(Stored, n)

ShownApps(msgs) ==
    IF Len(msgs) >= 2 /\ msgs[2].kind = "app"
    THEN [k \in 1..(Len(msgs) - 1) |-> msgs[k + 1].what]
    ELSE <<>>

\* C8: create of a new name with a list, then show of the name, shows the
\* list's entries trimmed, the empty ones dropped, in input order (nothing
\* with no list); the workspaces stored before are unchanged and the new one
\* is last.
C8_CreateThenShow ==
    \A n \in Names, hasApps \in BOOLEAN, es \in AppLists :
        (~Has(Stored, n) /\ (hasApps \/ es = <<>>)) =>
            LET after == LoadData(AfterCreate(file, n, hasApps, es))
                shown == CmdShow(after, n).out
                want  == IF hasApps THEN Named(es) ELSE <<>>
            IN /\ after = Append(Stored, Workspace(n, want))
               /\ shown[1].kind = "workspace"
               /\ shown[1].what = n
               /\ ShownApps(shown) = want
               /\ Len(shown) = IF want = <<>> THEN 2 ELSE 1 + Len(want)
               /\ want = <<>> => shown[2].kind = "no_apps"

\* show lists B then A for the second workspace of the store
C8_Witness ==
    /\ cmd.op = "show"
    /\ Len(Stored) = 2
    /\ Stored[2].name = cmd.name
    /\ ShownApps(out) = << <<"B">>, <<"A">> >>
    /\ ShownApps(out) = Stored[2].apps

\* C9: when both processes loaded before either saved and both saved, the
\* store ends as the last saver alone would have left it: the first saver's
\* update is gone, though both reported their work.
C9_LastWriterWins ==
    \A p, q \in Procs :
        (/\ pc[p] = "done" /\ pc[q] = "done"
         /\ savers = <<p, q>>
         /\ seen[p] = 0 /\ seen[q] = 0)
        => file = FileAfter(origin, RunJob(LoadData(origin), job[q]))

\* both added an app to the same workspace and said so; the app the first
\* saver added is not in the store
C9_Witness ==
    \E p, q \in Procs :
        /\ pc[p] = "done" /\ pc[q] = "done"
        /\ savers = <<p, q>>
        /\ seen[p] = 0 /\ seen[q] = 0
        /\ job[p].op = "add" /\ job[q].op = "add"
        /\ job[p].name = job[q].name
        /\ Kinds(rout[p]) = <<"added">> /\ Kinds(rout[q]) = <<"added">>
        /\ ~Contains(AppsOf(Stored, job[p].name), rout[p][1].what[1])
        /\ Contains(AppsOf(Stored, job[q].name), rout[q][1].what[1])

\* C10: after remove on an existing workspace none of the apps named in the
\* list is left in it, and the apps not named keep their order.
C10_RemoveLeavesNoneNamed ==
    \A n \in Names, es \in AppLists :
        Has(Stored, n) =>
            LET left == AppsOf(LoadData(AfterRemove(file, n, es)), n)
                Keep(a) == ~Contains(Named(es), a)
            IN /\ \A k \in 1..Len(Named(es)) : ~Contains(left, Named(es)[k])
               /\ left = SelectSeq(AppsOf(Stored, n), Keep)

====
